---- MODULE Spec2Model ----
(***************************************************************************)
(* Model of the story-point estimator core (src/estimator.py): the         *)
(* Fibonacci snapper, the schema validator/cleaner, the text sanitizer     *)
(* and the prompt builder.                                                 *)
(*                                                                         *)
(* Representation.                                                         *)
(*  - A text is a sequence of one-character strings, so that regular       *)
(*    expression substitution, strip() and slicing act on characters.      *)
(*  - A number is an integer counting units of 1/Scale (Scale = 2 lets     *)
(*    the model hold 2.5 or 10.5); FIBONACCI keeps the source's values.    *)
(*  - A cell of a table is a record: [kind |-> "null"] (None / NaN),       *)
(*    [kind |-> "str", s |-> text] or [kind |-> "num", v |-> number].      *)
(*  - A DataFrame is [columns |-> sequence of column names,                *)
(*    rows |-> sequence of [index |-> label, cells |-> sequence of cells]].*)
(*  - A Python value handed to a function is a cell-like record as well,   *)
(*    so that isinstance() and "is None" are tests of its kind.            *)
(***************************************************************************)
EXTENDS Integers, Sequences, FiniteSets, TLC

VARIABLES pc, val, snapped, df, cleaned, text, max_len, sanitized,
          resanitized, new_story, historical_df, full_prompt,
          api_key, csv_path, csv_file, llm_result, llm_calls, messages

vars == <<pc, val, snapped, df, cleaned, text, max_len, sanitized,
          resanitized, new_story, historical_df, full_prompt,
          api_key, csv_path, csv_file, llm_result, llm_calls, messages>>

\* The variables of one estimate action and of the file it loads.
flowVars == <<api_key, csv_path, csv_file, llm_result, llm_calls, messages>>

\* Value of a variable that the running specification does not use.
Unset == "unset"

\* The variables of the estimate action are not in use.
FlowUnset ==
    /\ api_key = Unset /\ csv_path = Unset /\ csv_file = Unset
    /\ llm_result = Unset /\ llm_calls = Unset /\ messages = Unset

\* Python's None (and pandas' NaN in a cell).
None == [kind |-> "null"]

\* A Python str holding the text t, and a Python number holding v/Scale.
Str(t) == [kind |-> "str", s |-> t]

Num(v) == [kind |-> "num", v |-> v]

\* Numbers are held in units of 1/Scale.
Scale == 2

(***************************************************************************)
(* Configuration (src/estimator.py:13-15)                                  *)
(***************************************************************************)
FIBONACCI == <<1, 2, 3, 5, 8, 13, 21>>

DEFAULT_MAX_LEN == 4000

(***************************************************************************)
(* Fibonacci snapper: nearest_fibonacci (src/estimator.py:55-60)           *)
(***************************************************************************)
Abs(x) == IF x < 0 THEN -x ELSE x

\* [(abs(val - f), f) for f in FIBONACCI]; the distance is in units of 1/Scale.
differences(v) ==
    [i \in 1..Len(FIBONACCI) |-> <<Abs(v - Scale * FIBONACCI[i]), FIBONACCI[i]>>]

\* Variant that keeps the last of the minimal elements.
MinByKeyLast(s) ==
    s[CHOOSE i \in DOMAIN s :
        /\ \A j \in DOMAIN s : s[i][1] <= s[j][1]
        /\ \A j \in DOMAIN s : j > i => s[j][1] > s[i][1]]

\* min(differences, key=lambda t: t[0]): Python's min keeps the first of the
\* minimal elements.
MinByKey(s) ==
    s[CHOOSE i \in DOMAIN s :
        /\ \A j \in DOMAIN s : s[i][1] <= s[j][1]
        /\ \A j \in DOMAIN s : j < i => s[j][1] > s[i][1]]

\* Variant that returns the first component of the minimal pair, the distance.
nearest_fibonacci_key(v) ==
    IF v <= 0 THEN FIBONACCI[1]
    ELSE MinByKey(differences(v))[1]

nearest_fibonacci(v) ==
    IF v <= 0 THEN FIBONACCI[1]
    ELSE MinByKey(differences(v))[2]

(***************************************************************************)
(* Characters and texts                                                    *)
(***************************************************************************)
\* Characters matched by the regular expression class \s and removed by
\* str.strip().
IsSpace(c) == c \in {" ", "\t", "\n"}

UpperCase == <<"A", "B", "C", "D", "E", "F", "G", "H", "I", "J", "K", "L", "M",
               "N", "O", "P", "Q", "R", "S", "T", "U", "V", "W", "X", "Y", "Z">>

LowerCase == <<"a", "b", "c", "d", "e", "f", "g", "h", "i", "j", "k", "l", "m",
               "n", "o", "p", "q", "r", "s", "t", "u", "v", "w", "x", "y", "z">>

\* Case folding of one character, as re.IGNORECASE and str.lower() do it.
Lower(c) ==
    IF \E i \in 1..26 : UpperCase[i] = c
    THEN LowerCase[CHOOSE i \in 1..26 : UpperCase[i] = c]
    ELSE c

RECURSIVE LStrip(_)
LStrip(t) ==
    IF t = <<>> THEN <<>>
    ELSE IF IsSpace(Head(t)) THEN LStrip(Tail(t)) ELSE t

RECURSIVE RStrip(_)
RStrip(t) ==
    IF t = <<>> THEN <<>>
    ELSE IF IsSpace(t[Len(t)]) THEN RStrip(SubSeq(t, 1, Len(t) - 1)) ELSE t

\* str.strip()
Strip(t) == RStrip(LStrip(t))

\* Variant that replaces pairs of whitespace characters, as re.sub(r"\s\s", " ",
\* text) would, instead of whole runs.
RECURSIVE CollapsePairs(_)
CollapsePairs(t) ==
    IF t = <<>> THEN <<>>
    ELSE IF Len(t) >= 2 /\ IsSpace(t[1]) /\ IsSpace(t[2])
         THEN <<" ">> \o CollapsePairs(Tail(Tail(t)))
         ELSE <<Head(t)>> \o CollapsePairs(Tail(t))

\* re.sub(r"\s+", " ", text): every maximal run of whitespace becomes one space.
RECURSIVE CollapseSpaces(_)
CollapseSpaces(t) ==
    IF t = <<>> THEN <<>>
    ELSE IF IsSpace(Head(t))
         THEN <<" ">> \o CollapseSpaces(LStrip(t))
         ELSE <<Head(t)>> \o CollapseSpaces(Tail(t))

\* The pattern, a literal, matches the text at position i, ignoring case.
MatchAt(t, pattern, i) ==
    /\ i + Len(pattern) - 1 <= Len(t)
    /\ \A k \in 1..Len(pattern) : Lower(t[i + k - 1]) = Lower(pattern[k])

\* re.sub(pattern, "", text, flags=re.IGNORECASE) from position i on: one
\* left-to-right scan, the matches found are non-overlapping and the result is
\* not scanned again.
RECURSIVE ReSubFrom(_, _, _)
ReSubFrom(t, pattern, i) ==
    IF i > Len(t) THEN <<>>
    ELSE IF MatchAt(t, pattern, i)
         THEN ReSubFrom(t, pattern, i + Len(pattern))
         ELSE <<t[i]>> \o ReSubFrom(t, pattern, i + 1)

ReSub(pattern, t) == ReSubFrom(t, pattern, 1)

\* A pattern occurs somewhere in the text, ignoring case
\* (pattern in text.lower()).
Contains(t, pattern) == \E i \in 1..Len(t) : MatchAt(t, pattern, i)

(***************************************************************************)
(* Text sanitizer: sanitize_text (src/estimator.py:72-107)                 *)
(***************************************************************************)
injection_patterns == <<
    <<"i", "g", "n", "o", "r", "e", " ", "a", "l", "l", " ", "p", "r", "e", "v",
      "i", "o", "u", "s", " ", "i", "n", "s", "t", "r", "u", "c", "t", "i", "o",
      "n", "s">>,
    <<"d", "i", "s", "r", "e", "g", "a", "r", "d", " ", "s", "y", "s", "t", "e",
      "m", " ", "p", "r", "o", "m", "p", "t">>,
    <<"y", "o", "u", " ", "a", "r", "e", " ", "n", "o", "w">>,
    <<"i", "g", "n", "o", "r", "e", " ", "t", "h", "e", "s", "e", " ", "r", "u",
      "l", "e", "s">>,
    <<"f", "o", "r", "g", "e", "t", " ", "e", "v", "e", "r", "y", "t", "h", "i",
      "n", "g">>,
    <<"n", "e", "w", " ", "i", "n", "s", "t", "r", "u", "c", "t", "i", "o", "n",
      "s">> >>

\* isinstance(text, str)
IsText(x) == x.kind = "str"

\* text = re.sub(r"\s+", " ", text).strip()
NormalizeWhitespace(t) == Strip(CollapseSpaces(t))

\* for pattern in injection_patterns: text = re.sub(pattern, "", text, ...)
\* applied to patterns k, k+1, ... in order.
RECURSIVE RemovePatternsFrom(_, _)
RemovePatternsFrom(t, k) ==
    IF k > Len(injection_patterns) THEN t
    ELSE RemovePatternsFrom(ReSub(injection_patterns[k], t), k + 1)

RemovePatterns(t) == RemovePatternsFrom(t, 1)

Ellipsis == <<".", ".", ".">>

\* Variant that keeps the whole result within max_len characters.
TruncateWithin(t, m) ==
    IF Len(t) > m THEN SubSeq(t, 1, m - 3) \o Ellipsis ELSE t

\* if len(text) > max_len: text = text[:max_len] + "..."
Truncate(t, m) ==
    IF Len(t) > m THEN SubSeq(t, 1, m) \o Ellipsis ELSE t

\* The argument is a Python value, the result a text.
sanitize_text(x, m) ==
    IF ~IsText(x) THEN <<>>
    ELSE Truncate(RemovePatterns(NormalizeWhitespace(x.s)), m)

(***************************************************************************)
(* Numbers as text: float(str) and str(int)                                *)
(***************************************************************************)
Digits == <<"0", "1", "2", "3", "4", "5", "6", "7", "8", "9">>

IsDigit(c) == \E i \in 1..10 : Digits[i] = c

DigitVal(c) == (CHOOSE i \in 1..10 : Digits[i] = c) - 1

\* The value of a non-empty sequence of decimal digits.
RECURSIVE StrToNat(_)
StrToNat(t) ==
    IF Len(t) = 1 THEN DigitVal(t[1])
    ELSE 10 * StrToNat(SubSeq(t, 1, Len(t) - 1)) + DigitVal(t[Len(t)])

\* str(n) for an int n >= 0.
RECURSIVE IntToStr(_)
IntToStr(n) ==
    IF n < 10 THEN <<Digits[n + 1]>>
    ELSE IntToStr(n \div 10) \o <<Digits[(n % 10) + 1]>>

\* float(s) for a str s, restricted to the decimal integer literals: optional
\* surrounding whitespace, an optional sign, then digits.  The result is a
\* number in units of 1/Scale, or None where float() raises ValueError.
ParseFloat(t) ==
    LET u == Strip(t)
        signed == u # <<>> /\ Head(u) \in {"-", "+"}
        body == IF signed THEN Tail(u) ELSE u
    IN  IF body = <<>> \/ \E i \in DOMAIN body : ~IsDigit(body[i]) THEN None
        ELSE IF signed /\ Head(u) = "-" THEN Num(-(Scale * StrToNat(body)))
        ELSE Num(Scale * StrToNat(body))

(***************************************************************************)
(* Schema validator/cleaner: validate_and_clean_df (src/estimator.py:18-69)*)
(***************************************************************************)
\* The outcome of a call that ends by raising an exception.
Raise == [kind |-> "raise"]

Frame(columns, rows) == [kind |-> "frame", columns |-> columns, rows |-> rows]

SummaryCol == <<"S", "u", "m", "m", "a", "r", "y">>

DescriptionCol == <<"D", "e", "s", "c", "r", "i", "p", "t", "i", "o", "n">>

AcceptanceCriteriaCol == <<"A", "c", "c", "e", "p", "t", "a", "n", "c", "e", "C",
                           "r", "i", "t", "e", "r", "i", "a">>

StoryPointsCol == <<"S", "t", "o", "r", "y", "P", "o", "i", "n", "t", "s">>

\* required = ['Summary', 'Description', 'AcceptanceCriteria', 'StoryPoints']
required == <<SummaryCol, DescriptionCol, AcceptanceCriteriaCol, StoryPointsCol>>

\* Variant that also requires AcceptanceCriteria.
criticalWithAC == <<SummaryCol, DescriptionCol, AcceptanceCriteriaCol, StoryPointsCol>>

\* subset=['Summary', 'Description', 'StoryPoints'] of the first dropna
critical == <<SummaryCol, DescriptionCol, StoryPointsCol>>

\* for col in ['Summary', 'Description', 'AcceptanceCriteria']
text_columns == <<SummaryCol, DescriptionCol, AcceptanceCriteriaCol>>

\* col in df.columns
HasColumn(d, name) == \E i \in DOMAIN d.columns : d.columns[i] = Str(name)

\* Position of the column called name.
ColIndex(d, name) == CHOOSE i \in DOMAIN d.columns : d.columns[i] = Str(name)

\* row[name]
Cell(d, row, name) == row.cells[ColIndex(d, name)]

\* df.rename(columns=lambda c: c.strip()); c.strip() raises AttributeError for
\* a column name that is not a str.
rename(d) ==
    IF \E i \in DOMAIN d.columns : ~IsText(d.columns[i]) THEN Raise
    ELSE [d EXCEPT !.columns = [i \in DOMAIN d.columns |-> Str(Strip(d.columns[i].s))]]

\* Variant: any(col in df.columns for col in required)
HasAnyRequired(d) == \E k \in DOMAIN required : HasColumn(d, required[k])

\* all(col in df.columns for col in required)

HasRequired(d) == \A k \in DOMAIN required : HasColumn(d, required[k])

\* df.dropna(subset=...): the rows with no null cell in the subset's columns,
\* in their order and under their index labels.
dropna(d, subset) ==
    LET keep(row) == \A k \in DOMAIN subset : Cell(d, row, subset[k]).kind # "null"
    IN  [d EXCEPT !.rows = SelectSeq(d.rows, keep)]

\* safe_to_float: float(x), or None when float raises ValueError or TypeError.
\* A null cell is NaN and stays missing.
safe_to_float(x) ==
    CASE x.kind = "num" -> x
      [] x.kind = "int" -> Num(Scale * x.v)
      [] x.kind = "str" -> ParseFloat(x.s)
      [] x.kind = "null" -> None

\* The snapper applied to a cell; the result is one of the ints of FIBONACCI.
SnapCell(x) == [kind |-> "int", v |-> nearest_fibonacci(x.v)]

\* .astype(str) of a cell: NaN becomes the text "nan", a str is itself.
AsTypeStr(x) ==
    CASE x.kind = "str" -> x
      [] x.kind = "null" -> Str(<<"n", "a", "n">>)
      [] x.kind = "int" -> Str(IntToStr(x.v))

\* .astype(str).str.strip() of a cell
StripCell(x) == Str(Strip(AsTypeStr(x).s))

\* df[name]: the cells of a column, one per row.
Column(d, name) == [j \in DOMAIN d.rows |-> Cell(d, d.rows[j], name)]

\* df[name] = values
SetColumn(d, name, values) ==
    [d EXCEPT !.rows = [j \in DOMAIN d.rows |->
        [d.rows[j] EXCEPT !.cells[ColIndex(d, name)] = values[j]]]]

\* The loop over the text columns k, k+1, ...
RECURSIVE CleanTextFrom(_, _)
CleanTextFrom(d, k) ==
    IF k > Len(text_columns) THEN d
    ELSE LET col == Column(d, text_columns[k])
         IN  CleanTextFrom(SetColumn(d, text_columns[k],
                               [j \in DOMAIN col |-> StripCell(col[j])]), k + 1)

\* Lines 41-69; df[col] raises KeyError for a column the table does not have.
CleanRows(d) ==
    IF \E k \in DOMAIN required : ~HasColumn(d, required[k]) THEN Raise
    ELSE LET d1 == dropna(d, critical)
             p1 == Column(d1, StoryPointsCol)
             d2 == SetColumn(d1, StoryPointsCol, [j \in DOMAIN p1 |-> safe_to_float(p1[j])])
             d3 == dropna(d2, <<StoryPointsCol>>)
             p3 == Column(d3, StoryPointsCol)
             d4 == SetColumn(d3, StoryPointsCol, [j \in DOMAIN p3 |-> SnapCell(p3[j])])
         IN  CleanTextFrom(d4, 1)

validate_and_clean_df(d) ==
    IF d.kind = "null" THEN None
    ELSE LET renamed == rename(d) IN
         IF renamed.kind = "raise" THEN Raise
         ELSE IF ~HasRequired(renamed) THEN None
         ELSE CleanRows(renamed)

(***************************************************************************)
(* Prompt builder: construct_prompt (src/estimator.py:132-205)             *)
(*                                                                         *)
(* The prompt is a sequence whose elements are the characters of the       *)
(* interpolated values and, as one element each, the literal pieces of the *)
(* f-string templates.                                                     *)
(***************************************************************************)
SYSTEM_PROMPT_HEAD == "You are an expert AI Story Point Estimator for agile teams.\n\nYour task is to estimate story points for new user stories based on historical data and the Fibonacci sequence.\n\n**Rules:**\n1. Story points MUST be one of: ["

SYSTEM_PROMPT_TAIL == "]\n2. Consider: Uncertainty, Complexity, and Effort\n3. Use historical examples as reference points\n4. Provide clear rationale for your estimate\n5. If uncertain, suggest a range of Fibonacci numbers\n\n**Output Format:**\n- Estimated Story Points: [number]\n- Rationale: [detailed explanation covering uncertainty, complexity, and effort]\n- Confidence: [High/Medium/Low]\n- Similar Stories: [reference to similar historical examples if applicable]\n"

NEW_STORY_MARKER == "\n\n### NEW STORY TO ESTIMATE:\n\n**Summary:** "

NEW_DESCRIPTION_LABEL == "\n\n**Description:** "

NEW_CRITERIA_LABEL == "\n\n**Acceptance Criteria:** "

NEW_STORY_CLOSING == "\n\nPlease provide your story point estimate following the rules and format above.\n"

EXAMPLES_HEADING == "\n\n### Historical Examples (for reference):\n"

EXAMPLE_NUMBER_PREFIX == "\n"

EXAMPLE_SUMMARY_LABEL == ". Summary: "

EXAMPLE_DESCRIPTION_LABEL == "\n   Description: "

EXAMPLE_CRITERIA_LABEL == "\n   Acceptance Criteria: "

EXAMPLE_POINTS_LABEL == "\n   Story Points: "

EXAMPLE_END == "\n"

\* The number of rows taken by hist_df.head(5).
EXAMPLE_ROWS == 5

\* new_story.get(key, ''): new_story is a function from its keys to values.
DictGet(d, key) == IF key \in DOMAIN d THEN d[key] ELSE Str(<<>>)

\* ex.get(name, '') for a record of the table d.
RecordGet(d, row, name) == IF HasColumn(d, name) THEN Cell(d, row, name) ELSE Str(<<>>)

\* hist_df.empty: no rows or no columns.
IsEmpty(d) == Len(d.rows) = 0 \/ Len(d.columns) = 0

\* Variant: hist_df.tail(n), the last n rows.
tail(d, n) ==
    IF Len(d.rows) <= n THEN d.rows ELSE SubSeq(d.rows, Len(d.rows) - n + 1, Len(d.rows))

\* hist_df.head(n).to_dict('records'): the first n rows.
head(d, n) == IF Len(d.rows) <= n THEN d.rows ELSE SubSeq(d.rows, 1, n)

\* ", ".join(str(f) for f in FIBONACCI), from element k on.
RECURSIVE JoinFrom(_)
JoinFrom(k) ==
    IF k > Len(FIBONACCI) THEN <<>>
    ELSE IF k = Len(FIBONACCI) THEN IntToStr(FIBONACCI[k])
    ELSE IntToStr(FIBONACCI[k]) \o <<",", " ">> \o JoinFrom(k + 1)

fibonacci_str == JoinFrom(1)

system_prompt == <<SYSTEM_PROMPT_HEAD>> \o fibonacci_str \o <<SYSTEM_PROMPT_TAIL>>

\* A value interpolated into an f-string: str(value).
Format(x) ==
    CASE x.kind = "int" -> IntToStr(x.v)
      [] x.kind = "str" -> x.s
      [] x.kind = "null" -> <<"N", "o", "n", "e">>

\* The block of example number i (lines 183-188).
ExampleBlock(d, i, ex) ==
    <<EXAMPLE_NUMBER_PREFIX>> \o IntToStr(i) \o <<EXAMPLE_SUMMARY_LABEL>>
      \o sanitize_text(RecordGet(d, ex, SummaryCol), DEFAULT_MAX_LEN)
      \o <<EXAMPLE_DESCRIPTION_LABEL>>
      \o sanitize_text(RecordGet(d, ex, DescriptionCol), DEFAULT_MAX_LEN)
      \o <<EXAMPLE_CRITERIA_LABEL>>
      \o sanitize_text(RecordGet(d, ex, AcceptanceCriteriaCol), DEFAULT_MAX_LEN)
      \o <<EXAMPLE_POINTS_LABEL>>
      \o (IF HasColumn(d, StoryPointsCol) THEN Format(Cell(d, ex, StoryPointsCol))
          ELSE Format(None))
      \o <<EXAMPLE_END>>

\* for i, ex in enumerate(examples, 1): example_text += ..., from example i on.
RECURSIVE ExampleBlocksFrom(_, _, _)
ExampleBlocksFrom(d, examples, i) ==
    IF i > Len(examples) THEN <<>>
    ELSE ExampleBlock(d, i, examples[i]) \o ExampleBlocksFrom(d, examples, i + 1)

\* Lines 178-188.
ExampleText(d, examples) ==
    IF examples = <<>> THEN <<>>
    ELSE <<EXAMPLES_HEADING>> \o ExampleBlocksFrom(d, examples, 1)

\* Variant that interpolates the new story's fields as they were given.
NewStoryTextRaw(story) ==
    <<NEW_STORY_MARKER>> \o Format(DictGet(story, "summary"))
      \o <<NEW_DESCRIPTION_LABEL>> \o Format(DictGet(story, "description"))
      \o <<NEW_CRITERIA_LABEL>> \o Format(DictGet(story, "acceptance_criteria"))
      \o <<NEW_STORY_CLOSING>>

\* Lines 143-146 and 190-202.
NewStoryText(story) ==
    LET summary == sanitize_text(DictGet(story, "summary"), DEFAULT_MAX_LEN)
        description == sanitize_text(DictGet(story, "description"), DEFAULT_MAX_LEN)
        acceptance_criteria ==
            sanitize_text(DictGet(story, "acceptance_criteria"), DEFAULT_MAX_LEN)
    IN  <<NEW_STORY_MARKER>> \o summary
          \o <<NEW_DESCRIPTION_LABEL>> \o description
          \o <<NEW_CRITERIA_LABEL>> \o acceptance_criteria
          \o <<NEW_STORY_CLOSING>>

\* The result is the prompt, a str, or Raise when the cleaner raises.
construct_prompt(story, historical) ==
    LET hist_df == validate_and_clean_df(historical) IN
    IF hist_df.kind = "raise" THEN Raise
    ELSE LET examples == IF hist_df.kind = "null" \/ IsEmpty(hist_df) THEN <<>>
                         ELSE head(hist_df, EXAMPLE_ROWS)
         IN  Str(system_prompt \o ExampleText(hist_df, examples) \o NewStoryText(story))

(***************************************************************************)
(* Inputs of the snapper                                                   *)
(***************************************************************************)
\* Values from -MinVal to MaxVal, in steps of 1/Scale.
MinVal == 3

MaxVal == 24

SnapInputs == (-(MinVal * Scale))..(MaxVal * Scale)

(***************************************************************************)
(* Inputs of the sanitizer                                                 *)
(***************************************************************************)
\* Texts are concatenations of at most MaxFrags of these fragments.
MaxFrags == 3

Fragments == {
    <<"n", "e", "w", " ", "i", "n", "s", "t">>,
    <<"r", "u", "c", "t", "i", "o", "n", "s">>,
    <<"N", "e", "w", " ", "I", "n", "s", "t", "r", "u", "c", "t", "i", "o", "n", "s">>,
    <<"y", "o", "u", " ", "\t">>,
    <<"a", "r", "e", " ", "n", "o", "w">>,
    <<"A", " ">>,
    <<"F", "i", "x">>,
    <<"\n">> }

RECURSIVE Concat(_)
Concat(ss) == IF ss = <<>> THEN <<>> ELSE Head(ss) \o Concat(Tail(ss))

Texts == {Concat(ss) : ss \in UNION {[1..n -> Fragments] : n \in 0..MaxFrags}}

\* Length bounds 0..MaxShortLen and the default.
MaxShortLen == 2

MaxLens == (0..MaxShortLen) \cup {DEFAULT_MAX_LEN}

\* Values handed to sanitize_text: texts, None and a number.
TextInputs == {Str(t) : t \in Texts} \cup {None, Num(123 * Scale)}

(***************************************************************************)
(* Inputs of the cleaner                                                   *)
(***************************************************************************)
\* A table has at most MaxRows rows, each one of RowKinds.
MaxRows == 3

S1 == <<"S", "1">>

D1 == <<" ", "D", "1">>

AC1 == <<"A", "C", " ">>

\* The fields of a row of the uploaded file: summary, description, acceptance
\* criteria, story points and the optional actual time.
Row(s, d, ac, sp) == [S |-> s, D |-> d, AC |-> ac, SP |-> sp, AT |-> Str(<<"2", "h">>)]

\* Valid rows (4 is a tie between 3 and 5, Num(5) is 5/Scale, " 7 " and "15"
\* are numeric texts), rows with a null critical cell, a row with a non-numeric
\* StoryPoints, and rows whose Summary or AcceptanceCriteria is only whitespace.
RowKinds == {
    Row(Str(S1), Str(D1), Str(AC1), Num(4 * Scale)),
    Row(None, Str(D1), Str(AC1), Num(8 * Scale)),
    Row(Str(<<" ", "S", " ", "2", "\t">>), Str(D1), None, Str(<<" ", "7", " ">>)),
    Row(Str(S1), None, Str(AC1), Num(100 * Scale)),
    Row(Str(S1), Str(D1), Str(AC1), Str(<<"x", "7">>)),
    Row(Str(S1), Str(D1), Str(AC1), None),
    Row(Str(<<" ", "\t">>), Str(D1), Str(AC1), Num(-(5 * Scale))),
    Row(Str(S1), Str(D1), Str(<<" ">>), Str(<<"1", "5">>)),
    Row(Str(S1), Str(D1), Str(AC1), Num(5)) }

Col(name, field) == [name |-> name, field |-> field]

\* Column names are texts and stay distinct after trimming, as in a header
\* row read by read_csv.
\* Header rows: the exact names; padded names in another order with the
\* optional column; and headers that lack a required column after trimming.
Headers == {
    <<Col(SummaryCol, "S"), Col(DescriptionCol, "D"),
      Col(AcceptanceCriteriaCol, "AC"), Col(StoryPointsCol, "SP")>>,
    <<Col(<<"\t">> \o StoryPointsCol \o <<" ">>, "SP"), Col(<<" ">> \o SummaryCol, "S"),
      Col(<<"A", "c", "t", "u", "a", "l", "T", "i", "m", "e">>, "AT"),
      Col(DescriptionCol \o <<" ">>, "D"), Col(AcceptanceCriteriaCol, "AC")>>,
    <<Col(SummaryCol, "S"), Col(DescriptionCol, "D")>>,
    <<Col(SummaryCol, "S"), Col(DescriptionCol, "D"), Col(AcceptanceCriteriaCol, "AC")>>,
    <<Col(<<"s", "u", "m", "m", "a", "r", "y">>, "S"), Col(DescriptionCol, "D"),
      Col(AcceptanceCriteriaCol, "AC"), Col(StoryPointsCol, "SP")>>,
    <<Col(SummaryCol, "S"), Col(DescriptionCol, "D"), Col(AcceptanceCriteriaCol, "AC"),
      Col(<<"S", "t", "o", "r", "y", " ", "P", "o", "i", "n", "t", "s">>, "SP")>>,
    <<>> }

\* The table with the given header whose rows, labelled 0, 1, ..., are the
\* given row kinds.
Table(header, kinds) ==
    Frame([i \in DOMAIN header |-> Str(header[i].name)],
          [j \in DOMAIN kinds |->
              [index |-> j - 1,
               cells |-> [i \in DOMAIN header |-> kinds[j][header[i].field]]]])

RowSeqs(kinds, n) == UNION {[1..m -> kinds] : m \in 0..n}

CleanInputs ==
    {None} \cup {Table(h, ks) : h \in Headers, ks \in RowSeqs(RowKinds, MaxRows)}

(***************************************************************************)
(* Inputs of the prompt builder                                            *)
(***************************************************************************)
\* A historical table has at most MaxPromptRows rows, each one of
\* PromptRowKinds.
MaxPromptRows == 7

PromptRowKinds == {
    Row(Str(S1), Str(D1), Str(AC1), Num(4 * Scale)),
    Row(None, Str(D1), Str(AC1), Num(8 * Scale)),
    Row(Str(<<"y", "o", "u", " ", "\t", "a", "r", "e", " ", "n", "o", "w", " ", "S", "2">>),
        Str(D1), None, Str(<<" ", "7", " ">>)) }

PromptHeaders == {
    <<Col(<<"\t">> \o StoryPointsCol \o <<" ">>, "SP"), Col(<<" ">> \o SummaryCol, "S"),
      Col(DescriptionCol \o <<" ">>, "D"), Col(AcceptanceCriteriaCol, "AC")>>,
    <<Col(SummaryCol, "S"), Col(DescriptionCol, "D")>> }

PromptTables ==
    {None} \cup {Table(h, ks) : h \in PromptHeaders,
                                ks \in RowSeqs(PromptRowKinds, MaxPromptRows)}

\* New-story mappings: all three fields; fields absent and fields that are not
\* texts; an injection phrase and whitespace to normalize.
NewStories == {
    [summary |-> Str(<<"F", "i", "x">>), description |-> Str(D1),
     acceptance_criteria |-> Str(AC1)],
    [summary |-> Str(<<"A", "\n", "N", "e", "w", " ", " ", "i", "n", "s", "t", "r", "u",
                       "c", "t", "i", "o", "n", "s", "\t", "B">>),
     description |-> Str(<<"D", " ", " ", "1">>), acceptance_criteria |-> None],
    [description |-> None] }

(***************************************************************************)
(* Specification of the snapper: one call of nearest_fibonacci             *)
(***************************************************************************)
InitSnap ==
    /\ pc = "snap_call"
    /\ val \in SnapInputs
    /\ snapped = Unset
    /\ df = Unset /\ cleaned = Unset
    /\ text = Unset /\ max_len = Unset /\ sanitized = Unset /\ resanitized = Unset
    /\ new_story = Unset /\ historical_df = Unset /\ full_prompt = Unset
    /\ FlowUnset

Snap ==
    /\ pc = "snap_call"
    /\ snapped' = nearest_fibonacci(val)
    /\ pc' = "snap_done"
    /\ UNCHANGED <<val, df, cleaned, text, max_len, sanitized, resanitized,
                   new_story, historical_df, full_prompt>>
    /\ UNCHANGED flowVars

NextSnap == Snap

SpecSnap == InitSnap /\ [][NextSnap]_vars

(***************************************************************************)
(* Specification of the sanitizer: sanitize_text, then sanitize_text on    *)
(* its own result                                                          *)
(***************************************************************************)
InitSanitize ==
    /\ pc = "sanitize_call"
    /\ text \in TextInputs
    /\ max_len \in MaxLens
    /\ sanitized = Unset /\ resanitized = Unset
    /\ val = Unset /\ snapped = Unset
    /\ df = Unset /\ cleaned = Unset
    /\ new_story = Unset /\ historical_df = Unset /\ full_prompt = Unset
    /\ FlowUnset

Sanitize ==
    /\ pc = "sanitize_call"
    /\ sanitized' = sanitize_text(text, max_len)
    /\ pc' = "sanitize_done"
    /\ UNCHANGED <<val, snapped, df, cleaned, text, max_len, resanitized,
                   new_story, historical_df, full_prompt>>
    /\ UNCHANGED flowVars

Resanitize ==
    /\ pc = "sanitize_done"
    /\ resanitized' = sanitize_text(Str(sanitized), max_len)
    /\ pc' = "resanitize_done"
    /\ UNCHANGED <<val, snapped, df, cleaned, text, max_len, sanitized,
                   new_story, historical_df, full_prompt>>
    /\ UNCHANGED flowVars

NextSanitize == Sanitize \/ Resanitize

SpecSanitize == InitSanitize /\ [][NextSanitize]_vars

(***************************************************************************)
(* Properties of the snapper                                               *)
(***************************************************************************)
\* Distance of the value v from the reference value f, in units of 1/Scale.
Dist(v, f) == Abs(v - Scale * f)

\* C1: nearest_fibonacci(v) is an element of FIBONACCI at minimal absolute
\* distance from v, the smaller one when two elements are equidistant, and 1
\* for every v <= 0.
C1_SnapNearest ==
    pc = "snap_done" =>
        /\ \E i \in DOMAIN FIBONACCI : snapped = FIBONACCI[i]
        /\ \A j \in DOMAIN FIBONACCI :
              /\ Dist(val, snapped) <= Dist(val, FIBONACCI[j])
              /\ Dist(val, snapped) = Dist(val, FIBONACCI[j]) => snapped <= FIBONACCI[j]
        /\ val <= 0 => snapped = 1

\* The value 4 is equidistant from 3 and 5 and has been snapped to 3.
C1_Witness ==
    /\ pc = "snap_done"
    /\ val = 4 * Scale
    /\ Dist(val, 3) = Dist(val, 5)
    /\ snapped = 3

(***************************************************************************)
(* Properties of the sanitizer                                             *)
(***************************************************************************)
\* The text contains none of the six phrases, ignoring case.
NoPhrase(t) == \A k \in DOMAIN injection_patterns : ~Contains(t, injection_patterns[k])

\* C6: the output of sanitize_text contains none of the six fixed phrases under
\* a case-insensitive substring check.
C6_NoPhraseInOutput ==
    pc \in {"sanitize_done", "resanitize_done"} => NoPhrase(sanitized)

C8_IdempotentOnPhraseFree ==
    (/\ pc = "resanitize_done"
     /\ IsText(text)
     /\ NoPhrase(text.s)
     /\ Len(text.s) <= max_len) => resanitized = sanitized

\* C8 as amended: for a text whose whitespace-normalized form contains none of
\* the six phrases and whose length is at most max_len, sanitizing the output
\* again gives the same output.
C8_IdempotentOnNormalizedClean ==
    (/\ pc = "resanitize_done"
     /\ IsText(text)
     /\ NoPhrase(NormalizeWhitespace(text.s))
     /\ Len(text.s) <= max_len) => resanitized = sanitized

\* A text with whitespace to normalize, clean after normalization, has been
\* sanitized twice.
C8_Witness ==
    /\ pc = "resanitize_done"
    /\ IsText(text)
    /\ NoPhrase(NormalizeWhitespace(text.s))
    /\ Len(text.s) <= max_len
    /\ NormalizeWhitespace(text.s) # text.s
    /\ sanitized # <<>>
    /\ resanitized = sanitized

(***************************************************************************)
(* Specification of the cleaner: one call of validate_and_clean_df         *)
(***************************************************************************)
InitClean ==
    /\ pc = "clean_call"
    /\ df \in CleanInputs
    /\ cleaned = Unset
    /\ val = Unset /\ snapped = Unset
    /\ text = Unset /\ max_len = Unset /\ sanitized = Unset /\ resanitized = Unset
    /\ new_story = Unset /\ historical_df = Unset /\ full_prompt = Unset
    /\ FlowUnset

Clean ==
    /\ pc = "clean_call"
    /\ cleaned' = validate_and_clean_df(df)
    /\ pc' = "clean_done"
    /\ UNCHANGED <<val, snapped, df, text, max_len, sanitized, resanitized,
                   new_story, historical_df, full_prompt>>
    /\ UNCHANGED flowVars

NextClean == Clean

SpecClean == InitClean /\ [][NextClean]_vars

(***************************************************************************)
(* Properties of the cleaner                                               *)
(***************************************************************************)
\* The input table has the column called name once its column names are
\* trimmed.
InputHasColumn(d, name) ==
    \E i \in DOMAIN d.columns : IsText(d.columns[i]) /\ Strip(d.columns[i].s) = name

InputHasRequired(d) ==
    /\ d.kind = "frame"
    /\ \A k \in DOMAIN required : InputHasColumn(d, required[k])

\* The cell of an input row under the column called name after trimming.
InputCell(d, row, name) ==
    row.cells[CHOOSE i \in DOMAIN d.columns : Strip(d.columns[i].s) = name]

\* The cell holds a number or a text that reads as one.
Coercible(x) ==
    \/ x.kind = "num"
    \/ /\ x.kind = "str"
       /\ LET u == Strip(x.s)
              body == IF u # <<>> /\ Head(u) \in {"-", "+"} THEN Tail(u) ELSE u
          IN  body # <<>> /\ \A i \in DOMAIN body : IsDigit(body[i])

\* Summary and Description are non-null and StoryPoints is non-null and
\* coercible to a number.
RowValid(d, row) ==
    /\ InputCell(d, row, SummaryCol).kind # "null"
    /\ InputCell(d, row, DescriptionCol).kind # "null"
    /\ Coercible(InputCell(d, row, StoryPointsCol))

InFibonacci(n) == \E i \in DOMAIN FIBONACCI : FIBONACCI[i] = n

\* C2: for an input with the four required columns, every row of the output has
\* Summary, Description and AcceptanceCriteria populated and non-empty after
\* trimming and StoryPoints an element of FIBONACCI, and the output has no more
\* rows than the input.
C2_CleanedRowsComplete ==
    (pc = "clean_done" /\ InputHasRequired(df)) =>
        /\ cleaned.kind = "frame"
        /\ Len(cleaned.rows) <= Len(df.rows)
        /\ \A j \in DOMAIN cleaned.rows :
              /\ \A k \in DOMAIN text_columns :
                    LET x == Cell(cleaned, cleaned.rows[j], text_columns[k])
                    IN  x.kind = "str" /\ Strip(x.s) # <<>>
              /\ LET p == Cell(cleaned, cleaned.rows[j], StoryPointsCol)
                 IN  p.kind = "int" /\ InFibonacci(p.v)

\* C3: when the input is None or lacks one of the four required columns after
\* its column names are trimmed, the result is None whatever the rows hold.
C3_MissingColumnRejected ==
    (pc = "clean_done" /\ ~InputHasRequired(df)) => cleaned.kind = "null"

\* A table with rows and some but not all of the required columns has been
\* rejected.
C3_Witness ==
    /\ pc = "clean_done"
    /\ df.kind = "frame"
    /\ Len(df.rows) > 0
    /\ InputHasColumn(df, SummaryCol)
    /\ ~InputHasColumn(df, StoryPointsCol)
    /\ cleaned.kind = "null"

\* C4: when the input has the required columns and none of its rows survives
\* cleaning, the result is None, as for a missing column.
C4_NoSurvivorIsInvalid ==
    (/\ pc = "clean_done"
     /\ InputHasRequired(df)
     /\ \A j \in DOMAIN df.rows : ~RowValid(df, df.rows[j])) => cleaned.kind = "null"

\* C5: for an input with the required columns, the rows of the output are the
\* valid rows of the input (rows missing only AcceptanceCriteria included) in
\* their order, and the number of rows removed is the number of invalid rows.
C5_ExactlyValidRowsKept ==
    (pc = "clean_done" /\ InputHasRequired(df)) =>
        LET valid(row) == RowValid(df, row)
            kept == SelectSeq(df.rows, valid)
        IN  /\ cleaned.kind = "frame"
            /\ [j \in DOMAIN cleaned.rows |-> cleaned.rows[j].index]
                 = [j \in DOMAIN kept |-> kept[j].index]
            /\ Len(df.rows) - Len(cleaned.rows)
                 = Cardinality({j \in DOMAIN df.rows : ~RowValid(df, df.rows[j])})

\* Of three rows, an invalid one between two valid ones has been removed and a
\* row missing only AcceptanceCriteria has been kept.
C5_Witness ==
    /\ pc = "clean_done"
    /\ InputHasRequired(df)
    /\ Len(df.rows) = 3
    /\ RowValid(df, df.rows[1]) /\ ~RowValid(df, df.rows[2]) /\ RowValid(df, df.rows[3])
    /\ InputCell(df, df.rows[3], AcceptanceCriteriaCol).kind = "null"
    /\ Len(cleaned.rows) = 2
    /\ cleaned.rows[2].index = 2

(***************************************************************************)
(* Specification of the prompt builder: one call of construct_prompt       *)
(***************************************************************************)
InitPrompt ==
    /\ pc = "prompt_call"
    /\ new_story \in NewStories
    /\ historical_df \in PromptTables
    /\ full_prompt = Unset
    /\ val = Unset /\ snapped = Unset
    /\ df = Unset /\ cleaned = Unset
    /\ text = Unset /\ max_len = Unset /\ sanitized = Unset /\ resanitized = Unset
    /\ FlowUnset

BuildPrompt ==
    /\ pc = "prompt_call"
    /\ full_prompt' = construct_prompt(new_story, historical_df)
    /\ pc' = "prompt_done"
    /\ UNCHANGED <<val, snapped, df, cleaned, text, max_len, sanitized, resanitized,
                   new_story, historical_df>>
    /\ UNCHANGED flowVars

NextPrompt == BuildPrompt

SpecPrompt == InitPrompt /\ [][NextPrompt]_vars

(***************************************************************************)
(* Properties of the prompt builder                                        *)
(***************************************************************************)
\* The positions of an element in a sequence.
Positions(p, e) == {i \in DOMAIN p : p[i] = e}

\* The i-th smallest element of a set of integers.
Nth(S, i) == CHOOSE x \in S : Cardinality({y \in S : y < x}) = i - 1

\* The sequence t lies in p from position i on.
IsSubAt(p, t, i) ==
    /\ i >= 1
    /\ i + Len(t) - 1 <= Len(p)
    /\ \A k \in DOMAIN t : p[i + k - 1] = t[k]

\* The text "1, 2, 3, 5, 8, 13, 21".
ReferenceList == <<"1", ",", " ", "2", ",", " ", "3", ",", " ", "5", ",", " ", "8", ",",
                   " ", "1", "3", ",", " ", "2", "1">>

\* C9: construct_prompt returns a non-empty text that is the header, listing
\* "1, 2, 3, 5, 8, 13, 21", then the examples, then the new-story block, which
\* holds the marker "NEW STORY TO ESTIMATE" and the sanitize_text outputs of the
\* summary, description and acceptance-criteria fields verbatim.
C9_PromptStructure ==
    pc = "prompt_done" =>
        /\ full_prompt.kind = "str"
        /\ LET p == full_prompt.s
               s1 == sanitize_text(DictGet(new_story, "summary"), DEFAULT_MAX_LEN)
               s2 == sanitize_text(DictGet(new_story, "description"), DEFAULT_MAX_LEN)
               s3 == sanitize_text(DictGet(new_story, "acceptance_criteria"), DEFAULT_MAX_LEN)
               block == <<NEW_STORY_MARKER>> \o s1 \o <<NEW_DESCRIPTION_LABEL>> \o s2
                          \o <<NEW_CRITERIA_LABEL>> \o s3 \o <<NEW_STORY_CLOSING>>
               headerEnd == 2 + Len(ReferenceList)
               m == Len(p) - Len(block) + 1
           IN  /\ p # <<>>
               /\ p[1] = SYSTEM_PROMPT_HEAD
               /\ IsSubAt(p, ReferenceList, 2)
               /\ p[headerEnd] = SYSTEM_PROMPT_TAIL
               /\ Positions(p, NEW_STORY_MARKER) = {m}
               /\ IsSubAt(p, block, m)
               /\ \A i \in Positions(p, EXAMPLES_HEADING) \cup Positions(p, EXAMPLE_SUMMARY_LABEL)
                                \cup Positions(p, EXAMPLE_POINTS_LABEL) :
                     headerEnd < i /\ i < m

\* A prompt with examples has been built for a new story whose summary the
\* sanitizer changed.
C9_Witness ==
    /\ pc = "prompt_done"
    /\ full_prompt.kind = "str"
    /\ Positions(full_prompt.s, EXAMPLES_HEADING) # {}
    /\ "summary" \in DOMAIN new_story
    /\ sanitize_text(new_story["summary"], DEFAULT_MAX_LEN) # new_story["summary"].s
    /\ sanitize_text(new_story["summary"], DEFAULT_MAX_LEN) # <<>>

\* C10: the example blocks are the first min(5, n) rows of the cleaned
\* historical dataset, numbered 1..k in their order, each with the row's
\* snapped StoryPoints; when cleaning yields None or an empty dataset the
\* prompt has no example block and no examples subsection, and nothing is
\* raised.
C10_FirstFiveExamples ==
    pc = "prompt_done" =>
        /\ full_prompt.kind = "str"
        /\ LET p == full_prompt.s
               c == validate_and_clean_df(historical_df)
               n == IF c.kind = "frame" THEN Len(c.rows) ELSE 0
               k == IF n < 5 THEN n ELSE 5
               starts == Positions(p, EXAMPLE_SUMMARY_LABEL)
               points == Positions(p, EXAMPLE_POINTS_LABEL)
               headings == Positions(p, EXAMPLES_HEADING)
           IN  /\ Cardinality(starts) = k
               /\ Cardinality(points) = k
               /\ \A i \in 1..k :
                     LET a == Nth(starts, i)
                         q == Nth(points, i)
                         row == c.rows[i]
                         sp == Cell(c, row, StoryPointsCol)
                     IN  /\ a > 2 /\ p[a - 2] = "\n" /\ p[a - 1] = Digits[i + 1]
                         /\ a < q
                         /\ i < k => q < Nth(starts, i + 1)
                         /\ IsSubAt(p, sanitize_text(Cell(c, row, SummaryCol), DEFAULT_MAX_LEN)
                                         \o <<EXAMPLE_DESCRIPTION_LABEL>>, a + 1)
                         /\ InFibonacci(sp.v)
                         /\ IsSubAt(p, IntToStr(sp.v) \o <<EXAMPLE_END>>, q + 1)
               /\ k = 0 => headings = {}
               /\ k > 0 => Cardinality(headings) = 1 /\ \A h \in headings : h < Nth(starts, 1)

\* A historical table of which more than five rows survive cleaning, the first
\* and the sixth of them different, has given five example blocks.
C10_Witness ==
    /\ pc = "prompt_done"
    /\ full_prompt.kind = "str"
    /\ LET c == validate_and_clean_df(historical_df)
       IN  /\ c.kind = "frame"
           /\ Len(c.rows) > 5
           /\ Len(historical_df.rows) > Len(c.rows)
           /\ Cell(c, c.rows[1], SummaryCol) # Cell(c, c.rows[6], SummaryCol)
    /\ Cardinality(Positions(full_prompt.s, EXAMPLE_SUMMARY_LABEL)) = 5

\* Cleaning gave None or an empty dataset and the prompt has no examples.
C10_WitnessEmpty ==
    /\ pc = "prompt_done"
    /\ historical_df.kind = "frame"
    /\ Len(historical_df.rows) > 0
    /\ validate_and_clean_df(historical_df).kind = "frame"
    /\ IsEmpty(validate_and_clean_df(historical_df))
    /\ full_prompt.kind = "str"
    /\ Positions(full_prompt.s, EXAMPLES_HEADING) = {}

(***************************************************************************)
(* Specification of the defensive re-run: the upload handler cleans the    *)
(* raw table (src/app.py:27-28) and construct_prompt cleans the result     *)
(* again (src/estimator.py:149)                                            *)
(***************************************************************************)
InitReclean ==
    /\ pc = "upload"
    /\ df \in CleanInputs
    /\ historical_df = Unset
    /\ cleaned = Unset
    /\ val = Unset /\ snapped = Unset
    /\ text = Unset /\ max_len = Unset /\ sanitized = Unset /\ resanitized = Unset
    /\ new_story = Unset /\ full_prompt = Unset
    /\ FlowUnset

\* historical_df = validate_and_clean_df(raw_df)
Upload ==
    /\ pc = "upload"
    /\ historical_df' = validate_and_clean_df(df)
    /\ pc' = "uploaded"
    /\ UNCHANGED <<val, snapped, df, cleaned, text, max_len, sanitized, resanitized,
                   new_story, full_prompt>>
    /\ UNCHANGED flowVars

\* hist_df = validate_and_clean_df(historical_df), reached only with a
\* historical_df that is not None (src/app.py:66).
Reclean ==
    /\ pc = "uploaded"
    /\ historical_df.kind = "frame"
    /\ cleaned' = validate_and_clean_df(historical_df)
    /\ pc' = "recleaned"
    /\ UNCHANGED <<val, snapped, df, text, max_len, sanitized, resanitized,
                   new_story, historical_df, full_prompt>>
    /\ UNCHANGED flowVars

NextReclean == Upload \/ Reclean

SpecReclean == InitReclean /\ [][NextReclean]_vars

\* C11: validate_and_clean_df is idempotent: cleaning a cleaned dataset gives
\* the same columns and the same rows, in the same order, with the same index
\* labels and field values.
C11_CleanIdempotent ==
    pc = "recleaned" => cleaned = historical_df

\* A raw table with padded column names, of which the first cleaning removed a
\* row and kept at least two, one of them with a null AcceptanceCriteria, has
\* been cleaned twice.
C11_Witness ==
    /\ pc = "recleaned"
    /\ df.columns # historical_df.columns
    /\ Len(df.rows) > Len(historical_df.rows)
    /\ Len(historical_df.rows) >= 2
    /\ \E j \in DOMAIN df.rows : InputCell(df, df.rows[j], AcceptanceCriteriaCol).kind = "null"
                                  /\ RowValid(df, df.rows[j])
    /\ cleaned = historical_df

(***************************************************************************)
(* File loader: load_historical_data (src/estimator.py:110-129)            *)
(*                                                                         *)
(* The file at the path is missing, unreadable (read_csv raises) or holds  *)
(* a table, the one read_csv returns.                                      *)
(***************************************************************************)
Missing == [kind |-> "missing"]

Unreadable == [kind |-> "unreadable"]

\* os.path.exists(filepath)
Exists(file) == file.kind # "missing"

\* pd.read_csv(filepath): the table, or Raise for a file it cannot read or
\* parse.
read_csv(file) == IF file.kind = "unreadable" THEN Raise ELSE file

\* Lines 124-129: every exception of read_csv and of the cleaner is caught
\* and turned into None.
load_historical_data(file) ==
    IF ~Exists(file) THEN None
    ELSE LET d == read_csv(file) IN
         IF d.kind = "raise" THEN None
         ELSE LET r == validate_and_clean_df(d) IN
              IF r.kind = "raise" THEN None ELSE r

(***************************************************************************)
(* Inputs at the boundary of the core                                      *)
(***************************************************************************)
\* An in-memory table has at most MaxBoundaryRows rows, a file at most
\* MaxFileRows.
MaxBoundaryRows == 2

MaxFileRows == 1

\* Rows of in-memory tables: a valid row, a row with an int where a text is
\* expected and a text where a number is expected, and a row of nulls.
BoundaryRowKinds == {
    Row(Str(S1), Str(D1), Str(AC1), Num(4 * Scale)),
    Row([kind |-> "int", v |-> 5], Str(D1), [kind |-> "int", v |-> 0], Str(<<"x", "7">>)),
    Row(None, None, None, None) }

\* The names of the columns of a table built with Table.
ColumnNames(header) == [i \in DOMAIN header |-> Str(header[i].name)]

\* In-memory tables whose first column is named by the int 0 instead of a
\* text, with and without the required columns.
IntNamedTables ==
    {Frame(<<[kind |-> "int", v |-> 0]>> \o ColumnNames(h),
           [j \in DOMAIN ks |->
               [index |-> j - 1,
                cells |-> <<None>> \o [i \in DOMAIN h |-> ks[j][h[i].field]]]]) :
        h \in PromptHeaders, ks \in RowSeqs(BoundaryRowKinds, MaxBoundaryRows)}

BoundaryTables ==
    {None} \cup IntNamedTables
           \cup {Table(h, ks) : h \in PromptHeaders, ks \in RowSeqs(BoundaryRowKinds, MaxBoundaryRows)}

\* Files: missing, unreadable, or a table with text column names as read_csv
\* builds them.
BoundaryFiles ==
    {Missing, Unreadable}
        \cup {Table(h, ks) : h \in Headers, ks \in RowSeqs(RowKinds, MaxFileRows)}

(***************************************************************************)
(* Specification of the boundary: one call of validate_and_clean_df, of    *)
(* load_historical_data, of sanitize_text or of construct_prompt           *)
(***************************************************************************)
InitBoundary ==
    /\ val = Unset /\ snapped = Unset /\ resanitized = Unset
    /\ cleaned = Unset /\ sanitized = Unset /\ full_prompt = Unset
    /\ api_key = Unset /\ csv_path = Unset
    /\ llm_result = Unset /\ llm_calls = Unset /\ messages = Unset
    /\ \/ /\ pc = "clean_call"
          /\ df \in BoundaryTables
          /\ text = Unset /\ max_len = Unset /\ new_story = Unset
          /\ historical_df = Unset /\ csv_file = Unset
       \/ /\ pc = "load_call"
          /\ csv_file \in BoundaryFiles
          /\ df = Unset /\ text = Unset /\ max_len = Unset /\ new_story = Unset
          /\ historical_df = Unset
       \/ /\ pc = "sanitize_call"
          /\ text \in TextInputs
          /\ max_len \in MaxLens
          /\ df = Unset /\ new_story = Unset /\ historical_df = Unset /\ csv_file = Unset
       \/ /\ pc = "prompt_call"
          /\ new_story \in NewStories
          /\ historical_df \in BoundaryTables
          /\ df = Unset /\ text = Unset /\ max_len = Unset /\ csv_file = Unset

Load ==
    /\ pc = "load_call"
    /\ historical_df' = load_historical_data(csv_file)
    /\ pc' = "load_done"
    /\ UNCHANGED <<val, snapped, df, cleaned, text, max_len, sanitized, resanitized,
                   new_story, full_prompt>>
    /\ UNCHANGED flowVars

NextBoundary == Clean \/ Load \/ Sanitize \/ BuildPrompt

SpecBoundary == InitBoundary /\ [][NextBoundary]_vars

\* load_historical_data returns a cleaned dataset or None.
LoadReturnsDatasetOrNone ==
    pc = "load_done" => historical_df.kind \in {"frame", "null"}

\* sanitize_text returns a text, the empty one for an input that is not a text.
SanitizeReturnsText ==
    pc = "sanitize_done" =>
        /\ sanitized \in Seq({sanitized[i] : i \in DOMAIN sanitized})
        /\ ~IsText(text) => sanitized = <<>>

\* validate_and_clean_df returns a cleaned dataset or None.
CleanReturnsDatasetOrNone ==
    pc = "clean_done" => cleaned.kind \in {"frame", "null"}

\* construct_prompt returns a text.
PromptReturnsText ==
    pc = "prompt_done" => full_prompt.kind = "str"

\* C12: no failure crosses the boundary of the core as an exception:
\* validate_and_clean_df and load_historical_data return a cleaned dataset or
\* None, sanitize_text returns a text (the empty one for a non-text input) and
\* construct_prompt returns a text, for every input.
C12_NoExceptionCrosses ==
    /\ CleanReturnsDatasetOrNone
    /\ LoadReturnsDatasetOrNone
    /\ SanitizeReturnsText
    /\ PromptReturnsText

(***************************************************************************)
(* One estimate action: the command-line session estimate_story_points     *)
(* (src/estimator.py:208-259) and one run of the web script with the       *)
(* estimate button pressed (src/app.py:24-37, 63-97)                       *)
(*                                                                         *)
(* api_key, csv_path and the fields of new_story start as the texts the    *)
(* user typed; csv_file is the file at the path, or the uploaded file      *)
(* (Missing when nothing is uploaded).  llm_calls counts the calls of      *)
(* generate_content, messages lists what the action printed or displayed   *)
(* as an error.                                                            *)
(***************************************************************************)
\* not value, for a str
IsBlank(t) == t = <<>>

\* The three fields as typed, stripped by the command-line session.
StripStory(story) ==
    [summary |-> Str(Strip(story["summary"].s)),
     description |-> Str(Strip(story["description"].s)),
     acceptance_criteria |-> Str(Strip(story["acceptance_criteria"].s))]

\* Lines 213-218 of estimate_story_points.
CliApiKey ==
    /\ pc = "cli_api_key"
    /\ api_key' = Strip(api_key)
    /\ IF IsBlank(Strip(api_key))
       THEN /\ messages' = Append(messages, "API Key is required.")
            /\ pc' = "done"
       ELSE /\ messages' = messages
            /\ pc' = "cli_csv_path"
    /\ UNCHANGED <<val, snapped, df, cleaned, text, max_len, sanitized, resanitized,
                   new_story, historical_df, full_prompt,
                   csv_path, csv_file, llm_result, llm_calls>>

\* Lines 221-224.
CliCsvPath ==
    /\ pc = "cli_csv_path"
    /\ csv_path' = Strip(csv_path)
    /\ IF IsBlank(Strip(csv_path))
       THEN /\ messages' = Append(messages, "CSV path is required.")
            /\ pc' = "done"
       ELSE /\ messages' = messages
            /\ pc' = "cli_load"
    /\ UNCHANGED <<val, snapped, df, cleaned, text, max_len, sanitized, resanitized,
                   new_story, historical_df, full_prompt,
                   api_key, csv_file, llm_result, llm_calls>>

\* Lines 226-228: the session ends when the loader returns None.
CliLoad ==
    /\ pc = "cli_load"
    /\ historical_df' = load_historical_data(csv_file)
    /\ pc' = IF load_historical_data(csv_file).kind = "null" THEN "done" ELSE "cli_story"
    /\ UNCHANGED <<val, snapped, df, cleaned, text, max_len, sanitized, resanitized,
                   new_story, full_prompt,
                   api_key, csv_path, csv_file, llm_result, llm_calls, messages>>

\* Lines 231-244.
CliStory ==
    /\ pc = "cli_story"
    /\ new_story' = StripStory(new_story)
    /\ IF IsBlank(Strip(new_story["summary"].s))
       THEN /\ messages' = Append(messages, "Summary is required.")
            /\ pc' = "done"
       ELSE /\ messages' = messages
            /\ pc' = "cli_prompt"
    /\ UNCHANGED <<val, snapped, df, cleaned, text, max_len, sanitized, resanitized,
                   historical_df, full_prompt,
                   api_key, csv_path, csv_file, llm_result, llm_calls>>

\* Line 247: an exception of construct_prompt ends the session.
CliPrompt ==
    /\ pc = "cli_prompt"
    /\ full_prompt' = construct_prompt(new_story, historical_df)
    /\ pc' = IF construct_prompt(new_story, historical_df).kind = "raise"
             THEN "crashed" ELSE "cli_llm"
    /\ UNCHANGED <<val, snapped, df, cleaned, text, max_len, sanitized, resanitized,
                   new_story, historical_df,
                   api_key, csv_path, csv_file, llm_result, llm_calls, messages>>

\* Lines 251-259: one call of generate_content, which returns a text or
\* raises; the except branch prints the error.
CliLLM ==
    /\ pc = "cli_llm"
    /\ llm_calls' = llm_calls + 1
    /\ \E outcome \in {"text", "raised"} :
          /\ llm_result' = outcome
          /\ messages' = IF outcome = "raised" THEN Append(messages, "Error: e")
                         ELSE messages
    /\ pc' = "done"
    /\ UNCHANGED <<val, snapped, df, cleaned, text, max_len, sanitized, resanitized,
                   new_story, historical_df, full_prompt,
                   api_key, csv_path, csv_file>>

\* src/app.py:24-39, the sidebar: the uploaded file is read and cleaned; an
\* exception, None and an empty dataset are displayed as errors.
WebSidebar ==
    /\ pc = "web_sidebar"
    /\ IF ~Exists(csv_file)
       THEN /\ historical_df' = None
            /\ messages' = messages
       ELSE IF read_csv(csv_file).kind = "raise"
                 \/ validate_and_clean_df(read_csv(csv_file)).kind = "raise"
       THEN /\ historical_df' = None
            /\ messages' = Append(messages, "Error loading CSV: e")
       ELSE /\ historical_df' = validate_and_clean_df(read_csv(csv_file))
            /\ messages' =
                 IF validate_and_clean_df(read_csv(csv_file)).kind = "frame"
                      /\ ~IsEmpty(validate_and_clean_df(read_csv(csv_file)))
                 THEN messages
                 ELSE Append(messages, "CSV validation failed. Please check the format.")
    /\ pc' = "web_button"
    /\ UNCHANGED <<val, snapped, df, cleaned, text, max_len, sanitized, resanitized,
                   new_story, full_prompt,
                   api_key, csv_path, csv_file, llm_result, llm_calls>>

\* src/app.py:63-70, the tests of the estimate button's handler.
WebButton ==
    /\ pc = "web_button"
    /\ IF IsBlank(api_key)
       THEN /\ messages' = Append(messages, "Please provide a Gemini API Key in the sidebar.")
            /\ pc' = "done"
       ELSE IF historical_df.kind = "null"
       THEN /\ messages' = Append(messages, "Please load historical data.")
            /\ pc' = "done"
       ELSE IF IsBlank(new_story["summary"].s)
       THEN /\ messages' = Append(messages, "Please provide a story summary.")
            /\ pc' = "done"
       ELSE /\ messages' = messages
            /\ pc' = "web_prompt"
    /\ UNCHANGED <<val, snapped, df, cleaned, text, max_len, sanitized, resanitized,
                   new_story, historical_df, full_prompt,
                   api_key, csv_path, csv_file, llm_result, llm_calls>>

\* src/app.py:72-86: inside the try block, an exception of construct_prompt is
\* displayed and ends the action.
WebPrompt ==
    /\ pc = "web_prompt"
    /\ full_prompt' = construct_prompt(new_story, historical_df)
    /\ IF construct_prompt(new_story, historical_df).kind = "raise"
       THEN /\ messages' = Append(messages, "An error occurred: e")
            /\ pc' = "done"
       ELSE /\ messages' = messages
            /\ pc' = "web_llm"
    /\ UNCHANGED <<val, snapped, df, cleaned, text, max_len, sanitized, resanitized,
                   new_story, historical_df,
                   api_key, csv_path, csv_file, llm_result, llm_calls>>

\* src/app.py:88-97: one call of generate_content, which returns a text or
\* raises; the except branch displays the error.
WebLLM ==
    /\ pc = "web_llm"
    /\ llm_calls' = llm_calls + 1
    /\ \E outcome \in {"text", "raised"} :
          /\ llm_result' = outcome
          /\ messages' = IF outcome = "raised" THEN Append(messages, "An error occurred: e")
                         ELSE messages
    /\ pc' = "done"
    /\ UNCHANGED <<val, snapped, df, cleaned, text, max_len, sanitized, resanitized,
                   new_story, historical_df, full_prompt,
                   api_key, csv_path, csv_file>>

(***************************************************************************)
(* Inputs of the estimate action                                           *)
(***************************************************************************)
\* What the user types for the key and for the path: nothing, a blank, a value.
TypedValues == {<<>>, <<" ">>, <<"k", "1", " ">>}

\* What the user types for the story: a summary, a blank summary, none.
TypedStories ==
    {[summary |-> Str(t), description |-> Str(D1), acceptance_criteria |-> Str(<<>>)] :
        t \in {<<"F", "i", "x", " ">>, <<" ">>, <<>>}}

\* Files: none, an unreadable one, and tables of at most MaxFlowRows rows.
MaxFlowRows == 1

FlowFiles ==
    {Missing, Unreadable}
        \cup {Table(h, ks) : h \in PromptHeaders, ks \in RowSeqs(PromptRowKinds, MaxFlowRows)}

InitEstimate ==
    /\ pc \in {"cli_api_key", "web_sidebar"}
    /\ api_key \in TypedValues
    /\ csv_path \in IF pc = "cli_api_key" THEN TypedValues ELSE {<<>>}
    /\ csv_file \in FlowFiles
    /\ new_story \in TypedStories
    /\ historical_df = None
    /\ full_prompt = None
    /\ llm_result = "none"
    /\ llm_calls = 0
    /\ messages = <<>>
    /\ val = Unset /\ snapped = Unset /\ df = Unset /\ cleaned = Unset
    /\ text = Unset /\ max_len = Unset /\ sanitized = Unset /\ resanitized = Unset

NextEstimate ==
    \/ CliApiKey \/ CliCsvPath \/ CliLoad \/ CliStory \/ CliPrompt \/ CliLLM
    \/ WebSidebar \/ WebButton \/ WebPrompt \/ WebLLM

SpecEstimate == InitEstimate /\ [][NextEstimate]_vars

(***************************************************************************)
(* Properties of the estimate action                                       *)
(***************************************************************************)
\* The messages that report a failed call of the model.
LLMErrors == {"Error: e", "An error occurred: e"}

Count(seq, S) == Cardinality({i \in DOMAIN seq : seq[i] \in S})

\* The call is made at most once; when it fails, the action ends with one
\* message for the failure and without a second call.
AtMostOneCall ==
    /\ llm_calls <= 1
    /\ llm_calls = 1 <=> llm_result \in {"text", "raised"}
    /\ llm_result = "raised" =>
          /\ pc = "done"
          /\ llm_calls = 1
          /\ Count(messages, LLMErrors) = 1
          /\ messages[Len(messages)] \in LLMErrors

\* The prompt is built and the call is made only with a key and a summary that
\* are not empty.
KeyAndSummarySupplied ==
    (llm_calls > 0 \/ full_prompt.kind # "null") =>
        /\ ~IsBlank(api_key)
        /\ ~IsBlank(new_story["summary"].s)

\* The prompt is built and the call is made only with a historical_df that is
\* not None.
DatasetNotNone ==
    (llm_calls > 0 \/ full_prompt.kind # "null") => historical_df.kind = "frame"

\* The prompt is built and the call is made only with a dataset that is not
\* invalid: not None and with at least one surviving row.
DatasetNotInvalid ==
    (llm_calls > 0 \/ full_prompt.kind # "null") =>
        historical_df.kind = "frame" /\ ~IsEmpty(historical_df)

\* C13: in every run of one estimate action the call of the model is made at
\* most once and only after the key, a loaded, non-invalid historical dataset
\* and a non-empty summary have been supplied; when one is missing the action
\* ends before the prompt is built; when the call fails the action ends with a
\* single error message and no second call.
C13_SingleGuardedCall ==
    /\ AtMostOneCall
    /\ KeyAndSummarySupplied
    /\ DatasetNotInvalid

====
